---- MODULE Spec2Model ----
(***************************************************************************)
(* Medicoreportz: the report pipeline of src/Medicoreportz/Medicoreportz.py *)
(* (the script) and of src/Medicoreportz/Medicoreportz/Medicoreportz.py     *)
(* (the package module application.py imports; its definitions carry the   *)
(* prefix pkg_).                                                            *)
(*                                                                         *)
(* A Python str is a sequence of one-character strings.  The characters of  *)
(* the model are the ASCII characters and the few others the Characters     *)
(* section names by their code points: Micro is U+00B5, EnDash is U+2013.   *)
(* A Python number is a record [kind, m, e]: kind "int" or "float" with     *)
(* value m / 10^e, "negzero", "nan" or "inf".                               *)
(***************************************************************************)
EXTENDS Integers, Sequences, FiniteSets, TLC

VARIABLES
    pc,             \* position of the run: "start", then the calls made
    text,           \* the str argument of clean_text / convert_to_json
    cleaned,        \* clean_text(text)
    recleaned,      \* clean_text(clean_text(text))
    extracted,      \* the mention list: extract_labs(text), or the argument of enrich_labs
    enriched,       \* enrich_labs(extracted), before add_highlight_level
    labs,           \* data["labs"] of the script's convert_to_json
    pkg_extracted,  \* extract_labs(text) of the package module
    pkg_labs,       \* data["labs"] of the package module's convert_to_json
    labs_text,      \* the Lab Results text build_summary_prompt puts in the prompt
    uploaded_file,  \* application.py: the file in the uploader, 0 for none
    session_state,  \* application.py: st.session_state, a dict
    data,           \* application.py: the record analyze_file returned in this run, a dict
    widgets,        \* application.py: the state Streamlit keeps of the keyed widgets
    page,           \* application.py: the widgets the browser shows
    clicked,        \* application.py: whether a click of the button started this run
    cursor          \* application.py: how many lab widgets this run has read

vars == <<pc, text, cleaned, recleaned, extracted, enriched, labs, pkg_extracted, pkg_labs,
          labs_text, uploaded_file, session_state, data, widgets, page, clicked, cursor>>

(***************************************************************************)
(* Bounds of the model.                                                    *)
(***************************************************************************)
MaxPieces == 3      \* pieces of a raw text handed to clean_text
MaxWords == 3       \* words of a text handed to convert_to_json
MaxMentions == 1    \* mentions of a list handed to enrich_labs directly

(***************************************************************************)
(* Characters.                                                             *)
(***************************************************************************)
Micro == "u+00B5"
EnDash == "u+2013"
CapitalMu == "u+039C"   \* what str.upper() and str.title() make of Micro
SmallMu == "u+03BC"     \* what str.lower() makes of CapitalMu

LowerLetters == <<"a","b","c","d","e","f","g","h","i","j","k","l","m",
                  "n","o","p","q","r","s","t","u","v","w","x","y","z">>
UpperLetters == <<"A","B","C","D","E","F","G","H","I","J","K","L","M",
                  "N","O","P","Q","R","S","T","U","V","W","X","Y","Z">>
DigitChars == <<"0","1","2","3","4","5","6","7","8","9">>

Range(f) == {f[i] : i \in DOMAIN f}

LowerSet == Range(LowerLetters)
UpperSet == Range(UpperLetters)
DigitSet == Range(DigitChars)

IsLower(c) == c \in LowerSet
IsUpper(c) == c \in UpperSet
IsLetter(c) == IsLower(c) \/ IsUpper(c)
IsDigit(c) == c \in DigitSet
\* \s of re and the characters str.strip() / str.split() treat as blank
\* (the characters with no escape of their own are named by their code point)
SpaceSet == {" ", "\t", "\n", "\r", "\f", "u+000B", "u+001C", "u+001D", "u+001E", "u+001F",
             "u+0085", "u+2028", "u+2029"}
IsSpace(c) == c \in SpaceSet
\* the letters that are not ASCII; all three are cased
MuSet == {Micro, CapitalMu, SmallMu}
IsCased(c) == IsLetter(c) \/ c \in MuSet
\* \w of re: letters, digits and the underscore
IsWord(c) == IsCased(c) \/ IsDigit(c) \/ c = "_"
IsAscii(c) == c \notin MuSet \cup {EnDash, "u+0085", "u+2028", "u+2029"}

ToLower == [c \in UpperSet |-> LowerLetters[CHOOSE i \in DOMAIN UpperLetters : UpperLetters[i] = c]]
ToUpper == [c \in LowerSet |-> UpperLetters[CHOOSE i \in DOMAIN LowerLetters : LowerLetters[i] = c]]
ToDigit == [c \in DigitSet |-> (CHOOSE i \in DOMAIN DigitChars : DigitChars[i] = c) - 1]

DigitVal(c) == ToDigit[c]
LowerChar(c) == IF IsUpper(c) THEN ToLower[c]
                ELSE IF c = CapitalMu THEN SmallMu
                ELSE c
UpperChar(c) == IF IsLower(c) THEN ToUpper[c]
                ELSE IF c \in {Micro, SmallMu} THEN CapitalMu
                ELSE c

\* str.lower(), str.upper(), str.title()
lower(s) == [i \in DOMAIN s |-> LowerChar(s[i])]
upper(s) == [i \in DOMAIN s |-> UpperChar(s[i])]
title(s) == [i \in DOMAIN s |->
               IF i = 1 \/ ~IsCased(s[i - 1]) THEN UpperChar(s[i]) ELSE LowerChar(s[i])]

(***************************************************************************)
(* str primitives.                                                         *)
(***************************************************************************)
\* s[i:] starts with t (1-based i)
StartsAt(s, i, t) ==
    /\ i + Len(t) - 1 <= Len(s)
    /\ \A k \in 1..Len(t) : s[i + k - 1] = t[k]

\* t in s
Contains(s, t) == \E i \in 1..(Len(s) - Len(t) + 1) : StartsAt(s, i, t)

\* the last index of the run of non-blank characters that holds index i
RECURSIVE RunEnd(_, _)
RunEnd(s, i) == IF i < Len(s) /\ ~IsSpace(s[i + 1]) THEN RunEnd(s, i + 1) ELSE i

\* str.strip()
RECURSIVE lstrip(_)
lstrip(s) == IF s # <<>> /\ IsSpace(s[1]) THEN lstrip(Tail(s)) ELSE s
RECURSIVE rstrip(_)
rstrip(s) == IF s # <<>> /\ IsSpace(s[Len(s)]) THEN rstrip(SubSeq(s, 1, Len(s) - 1)) ELSE s
strip(s) == rstrip(lstrip(s))

\* str.replace(old, new): left to right, matches do not overlap
RECURSIVE ReplaceFrom(_, _, _, _)
ReplaceFrom(s, i, old, new) ==
    IF i > Len(s) THEN <<>>
    ELSE IF StartsAt(s, i, old) THEN new \o ReplaceFrom(s, i + Len(old), old, new)
    ELSE <<s[i]>> \o ReplaceFrom(s, i + 1, old, new)
replace(s, old, new) == ReplaceFrom(s, 1, old, new)

\* "".join(pieces)
RECURSIVE Concat(_)
Concat(ss) == IF ss = <<>> THEN <<>> ELSE Head(ss) \o Concat(Tail(ss))

\* " ".join(words)
RECURSIVE JoinSpace(_)
JoinSpace(ws) ==
    IF ws = <<>> THEN <<>>
    ELSE IF Len(ws) = 1 THEN ws[1]
    ELSE ws[1] \o <<" ">> \o JoinSpace(Tail(ws))

\* all sequences over S of length at most n
SeqUpTo(S, n) == UNION {[1..k -> S] : k \in 0..n}

(***************************************************************************)
(* clean_text of the script, one definition per statement.                 *)
(***************************************************************************)
\* text.encode("ascii", "ignore").decode()
ascii_ignore(s) == SelectSeq(s, IsAscii)

\* re.sub(r"http\S+", "", text)
HttpAt(s, i) ==
    /\ StartsAt(s, i, <<"h","t","t","p">>)
    /\ i + 4 <= Len(s)
    /\ ~IsSpace(s[i + 4])
RECURSIVE SubHttpFrom(_, _)
SubHttpFrom(s, i) ==
    IF i > Len(s) THEN <<>>
    ELSE IF HttpAt(s, i) THEN SubHttpFrom(s, RunEnd(s, i + 4) + 1)
    ELSE <<s[i]>> \o SubHttpFrom(s, i + 1)
sub_http(s) == SubHttpFrom(s, 1)

\* re.sub(r"\S+@\S+", "", text)
EmailAt(s, i) ==
    /\ ~IsSpace(s[i])
    /\ \E j \in (i + 1)..(RunEnd(s, i) - 1) : s[j] = "@"
RECURSIVE SubEmailFrom(_, _)
SubEmailFrom(s, i) ==
    IF i > Len(s) THEN <<>>
    ELSE IF EmailAt(s, i) THEN SubEmailFrom(s, RunEnd(s, i) + 1)
    ELSE <<s[i]>> \o SubEmailFrom(s, i + 1)
sub_email(s) == SubEmailFrom(s, 1)

\* re.sub(r"[^\w\s.,:/()%\-]", " ", text)
KeptChar(c) == IsWord(c) \/ IsSpace(c) \/ c \in {".", ",", ":", "/", "(", ")", "%", "-"}
sub_chars(s) == [i \in DOMAIN s |-> IF KeptChar(s[i]) THEN s[i] ELSE " "]

\* re.sub(r"[ \t]+", " ", text)
IsBlank(c) == c \in {" ", "\t"}
RECURSIVE SubBlanksFrom(_, _)
SubBlanksFrom(s, i) ==
    IF i > Len(s) THEN <<>>
    ELSE IF IsBlank(s[i])
         THEN IF i > 1 /\ IsBlank(s[i - 1]) THEN SubBlanksFrom(s, i + 1)
              ELSE <<" ">> \o SubBlanksFrom(s, i + 1)
    ELSE <<s[i]>> \o SubBlanksFrom(s, i + 1)
sub_blanks(s) == SubBlanksFrom(s, 1)

\* re.sub(r"\n{2,}", "\n", text)
RECURSIVE SubNewlinesFrom(_, _)
SubNewlinesFrom(s, i) ==
    IF i > Len(s) THEN <<>>
    ELSE IF s[i] = "\n" /\ i > 1 /\ s[i - 1] = "\n" THEN SubNewlinesFrom(s, i + 1)
    ELSE <<s[i]>> \o SubNewlinesFrom(s, i + 1)
sub_newlines(s) == SubNewlinesFrom(s, 1)

\* the unit artifacts and their repaired form
Artifact1 == <<"x","1","0"," ","3","/","L">>
Artifact2 == <<"x","1","0"," ","3"," ","/"," ","L">>
Repaired == <<"x","1","0","^","3","/",Micro,"L">>
repair_units(s) == replace(replace(s, Artifact1, Repaired), Artifact2, Repaired)

\* a slip in the order of the statements: the units are repaired before the blanks
\* are collapsed, so an artifact written with a tab is left for the next pass
clean_text_repair_first(s) ==
    strip(sub_newlines(sub_blanks(repair_units(sub_chars(
        sub_email(sub_http(ascii_ignore(s))))))))

clean_text(s) ==
    strip(repair_units(sub_newlines(sub_blanks(sub_chars(
        sub_email(sub_http(ascii_ignore(s))))))))

(***************************************************************************)
(* Python numbers.  [kind |-> "int" or "float", m, e] is m / 10^e, e of    *)
(* either sign; "negzero" is the float -0.0, "nan" and "inf" (m = 1 or -1) *)
(* are the floats float() also parses.  A float is kept with no trailing   *)
(* zero in m, so equal values are equal records.  A number of the model    *)
(* has at most nine significant digits, where float() and f"{x}" are exact *)
(* as long as the value is not subnormal (below 1e-307).                   *)
(***************************************************************************)
RECURSIVE Pow10(_)
Pow10(n) == IF n <= 0 THEN 1 ELSE 10 * Pow10(n - 1)

Abs(n) == IF n < 0 THEN -n ELSE n

\* the number of decimal digits of n >= 0
RECURSIVE NumDigits(_)
NumDigits(n) == IF n < 10 THEN 1 ELSE 1 + NumDigits(n \div 10)

RECURSIVE Normal(_, _)
Normal(m, e) ==
    IF m = 0 THEN [kind |-> "float", m |-> 0, e |-> 0]
    ELSE IF m % 10 = 0 THEN Normal(m \div 10, e - 1)
    ELSE [kind |-> "float", m |-> m, e |-> e]

PyInt(m) == [kind |-> "int", m |-> m, e |-> 0]
PyFloat(m, e) == Normal(m, e)
NegZero == [kind |-> "negzero", m |-> 0, e |-> 0]
NaN == [kind |-> "nan", m |-> 0, e |-> 0]
Inf(sign) == [kind |-> "inf", m |-> sign, e |-> 0]

\* where the decimal point stands: |x| is 0.d1...dn * 10^DecPt(x)
DecPt(x) == NumDigits(Abs(x.m)) - x.e

\* the digits of |x.m|, filled with zeros to nine digits
Padded(x) == Abs(x.m) * Pow10(9 - NumDigits(Abs(x.m)))

\* |a| < |b| for finite a and b, neither of them zero
MagLt(a, b) ==
    \/ DecPt(a) < DecPt(b)
    \/ DecPt(a) = DecPt(b) /\ Padded(a) < Padded(b)

\* a < b of Python: every comparison with nan is False
NumLt(a, b) ==
    IF a.kind = "nan" \/ b.kind = "nan" THEN FALSE
    ELSE IF a.kind = "inf" THEN a.m < 0 /\ ~(b.kind = "inf" /\ b.m < 0)
    ELSE IF b.kind = "inf" THEN b.m > 0
    ELSE IF a.m <= 0 /\ b.m >= 0 THEN a.m < 0 \/ b.m > 0
    ELSE IF a.m >= 0 /\ b.m <= 0 THEN FALSE
    ELSE IF a.m > 0 THEN MagLt(a, b)
    ELSE MagLt(b, a)
NumGt(a, b) == NumLt(b, a)

\* the value of a run of decimal digits
RECURSIVE DigitsVal(_)
DigitsVal(ds) ==
    IF ds = <<>> THEN 0
    ELSE 10 * DigitsVal(SubSeq(ds, 1, Len(ds) - 1)) + DigitVal(ds[Len(ds)])

AllDigits(s) == \A i \in DOMAIN s : IsDigit(s[i])

\* str(n) for an integer n >= 0
RECURSIVE NatStr(_)
NatStr(n) == IF n < 10 THEN <<DigitChars[n + 1]>>
             ELSE NatStr(n \div 10) \o <<DigitChars[(n % 10) + 1]>>

\* n zeros
Zeros(n) == [i \in 1..n |-> "0"]

\* the digits ds with the point after dp of them, in the fixed notation of repr
FixedStr(ds, dp) ==
    IF dp <= 0 THEN <<"0", ".">> \o Zeros(-dp) \o ds
    ELSE IF dp >= Len(ds) THEN ds \o Zeros(dp - Len(ds)) \o <<".", "0">>
    ELSE SubSeq(ds, 1, dp) \o <<".">> \o SubSeq(ds, dp + 1, Len(ds))

\* the same in the exponent notation of repr: d[.ddd]e+XX, two exponent digits at least
ExpStr(ds, dp) ==
    LET x == dp - 1
    IN  <<Head(ds)>> \o (IF Len(ds) > 1 THEN <<".">> \o Tail(ds) ELSE <<>>) \o
        <<"e", IF x < 0 THEN "-" ELSE "+">> \o
        (IF Abs(x) < 10 THEN <<"0">> ELSE <<>>) \o NatStr(Abs(x))

\* f"{x}": an int prints its digits; a float prints repr(x), the fixed notation
\* for 1e-4 <= |x| < 1e16 and the exponent notation outside
NumStr(x) ==
    LET sign == IF x.m < 0 THEN <<"-">> ELSE <<>>
        ds == NatStr(Abs(x.m))
    IN  IF x.kind = "nan" THEN <<"n","a","n">>
        ELSE IF x.kind = "inf" THEN sign \o <<"i","n","f">>
        ELSE IF x.kind = "int" THEN sign \o ds
        ELSE IF x.kind = "negzero" THEN <<"-","0",".","0">>
        ELSE IF x.m = 0 THEN <<"0",".","0">>
        ELSE IF DecPt(x) > -4 /\ DecPt(x) <= 16 THEN sign \o FixedStr(ds, DecPt(x))
        ELSE sign \o ExpStr(ds, DecPt(x))

\* s without its leading zeros / its trailing zeros
RECURSIVE NoLeadingZeros(_)
NoLeadingZeros(s) == IF s # <<>> /\ Head(s) = "0" THEN NoLeadingZeros(Tail(s)) ELSE s
RECURSIVE NoTrailingZeros(_)
NoTrailingZeros(s) ==
    IF s # <<>> /\ s[Len(s)] = "0" THEN NoTrailingZeros(SubSeq(s, 1, Len(s) - 1)) ELSE s

\* the float nearest to 0.d1...dn * 10^dp for the digits ds, d1 and dn not zero:
\* inf from the middle between the largest float and 2^1024 on, zero up to the
\* middle between zero and the smallest float
Rounded(ds, dp) ==
    LET x == [kind |-> "float", m |-> DigitsVal(ds), e |-> Len(ds) - dp]
    IN  IF dp > 309 \/ (dp = 309 /\ Padded(x) >= 179769314) THEN Inf(1)
        ELSE IF dp < -323 \/ (dp = -323 /\ Padded(x) <= 247032822) THEN PyFloat(0, 0)
        ELSE x

\* the exponent digits as a number; beyond five digits every exponent is out of range
ExponentVal(ds) ==
    LET d == NoLeadingZeros(ds)
    IN  IF Len(d) > 5 THEN 99999 ELSE DigitsVal(d)

\* an exponent part: e or E, an optional sign, digits
IsExponent(s) ==
    /\ Len(s) >= 2
    /\ s[1] \in {"e", "E"}
    /\ LET ds == IF s[2] \in {"+", "-"} THEN SubSeq(s, 3, Len(s)) ELSE Tail(s)
       IN  ds # <<>> /\ AllDigits(ds)

SignedExponent(s) ==
    IF s = <<>> THEN 0
    ELSE IF s[2] = "-" THEN -ExponentVal(SubSeq(s, 3, Len(s)))
    ELSE IF s[2] = "+" THEN ExponentVal(SubSeq(s, 3, Len(s)))
    ELSE ExponentVal(Tail(s))

\* the decimal ip.fp with the exponent part ex ("" for none): the digits without
\* their outer zeros, then the rounding
Decimal(ip, fp, ex) ==
    LET all == ip \o fp
        lead == NoLeadingZeros(all)
        ds == NoTrailingZeros(lead)
        dp == Len(ip) - (Len(all) - Len(lead)) + SignedExponent(ex)
    IN  IF ds = <<>> THEN PyFloat(0, 0) ELSE Rounded(ds, dp)

\* every underscore of p stands between two digits
UnderscoresOk(p) ==
    \A i \in DOMAIN p :
        p[i] = "_" => i > 1 /\ i < Len(p) /\ IsDigit(p[i - 1]) /\ IsDigit(p[i + 1])

\* float(p) for an unsigned part p with no blank in it: nan, inf, infinity in any
\* case, or decimal digits with at most one point and an optional exponent part
ParseUnsigned(p) ==
    LET lp == lower(p)
        es == {i \in DOMAIN p : p[i] \in {"e", "E"}}
        k == IF es = {} THEN Len(p) + 1 ELSE CHOOSE i \in es : \A j \in es : i <= j
        mant == SubSeq(p, 1, k - 1)
        ex == SubSeq(p, k, Len(p))
        dots == {i \in DOMAIN mant : mant[i] = "."}
    IN  IF lp = <<"n","a","n">> THEN [ok |-> TRUE, val |-> NaN]
        ELSE IF lp = <<"i","n","f">> \/ lp = <<"i","n","f","i","n","i","t","y">>
             THEN [ok |-> TRUE, val |-> Inf(1)]
        ELSE IF ex # <<>> /\ ~IsExponent(ex) THEN [ok |-> FALSE, val |-> NaN]
        ELSE IF dots = {} /\ mant # <<>> /\ AllDigits(mant)
             THEN [ok |-> TRUE, val |-> Decimal(mant, <<>>, ex)]
        ELSE IF Cardinality(dots) = 1
             THEN LET d == CHOOSE i \in dots : TRUE
                      ip == SubSeq(mant, 1, d - 1)
                      fp == SubSeq(mant, d + 1, Len(mant))
                  IN  IF Len(mant) > 1 /\ AllDigits(ip) /\ AllDigits(fp)
                      THEN [ok |-> TRUE, val |-> Decimal(ip, fp, ex)]
                      ELSE [ok |-> FALSE, val |-> NaN]
        ELSE [ok |-> FALSE, val |-> NaN]

\* -x
Negated(x) ==
    IF x.kind = "nan" THEN x
    ELSE IF x.kind = "negzero" THEN PyFloat(0, 0)
    ELSE IF x.m = 0 THEN NegZero
    ELSE [x EXCEPT !.m = -x.m]

\* float(p) for a part p with no blank in it: the underscores between digits are
\* dropped, then an optional sign and the rest
ParseFloat(p) ==
    IF ~UnderscoresOk(p) THEN [ok |-> FALSE, val |-> NaN]
    ELSE LET q == SelectSeq(p, LAMBDA c : c # "_")
         IN  IF q # <<>> /\ q[1] \in {"+", "-"}
             THEN LET r == ParseUnsigned(Tail(q))
                  IN  IF r.ok /\ q[1] = "-" THEN [ok |-> TRUE, val |-> Negated(r.val)] ELSE r
             ELSE ParseUnsigned(q)

(***************************************************************************)
(* extract_labs of the script: a line scan over the CBC vocabulary.        *)
(***************************************************************************)
CBC_TESTS == <<
    <<"H","E","M","O","G","L","O","B","I","N">>,
    <<"R","B","C">>, <<"P","C","V">>, <<"M","C","V">>, <<"M","C","H">>,
    <<"M","C","H","C">>, <<"R","D","W">>, <<"W","B","C">>,
    <<"P","L","A","T","E","L","E","T">> >>

\* the keys of UNIT_MAP, in the order the dict declares them
UNIT_MAP == <<
    <<"g","/","d","L">>, <<"f","L">>, <<"p","g">>, <<"%">>, <<"c","u","m","m">>,
    <<"m","i","l","l","/","c","u","m","m">>, <<"c","e","l","l","s","/","m","c","L">> >>

Unknown == <<"U","n","k","n","o","w","n">>

\* str.splitlines(): a line ends at \r\n or at one character of LineEnds
LineEnds == {"\n", "\r", "\f", "u+000B", "u+001C", "u+001D", "u+001E",
             "u+0085", "u+2028", "u+2029"}
RECURSIVE SplitLinesFrom(_, _, _)
SplitLinesFrom(s, i, cur) ==
    IF i > Len(s) THEN (IF cur = <<>> THEN <<>> ELSE <<cur>>)
    ELSE IF s[i] = "\r" /\ i < Len(s) /\ s[i + 1] = "\n"
         THEN <<cur>> \o SplitLinesFrom(s, i + 2, <<>>)
    ELSE IF s[i] \in LineEnds THEN <<cur>> \o SplitLinesFrom(s, i + 1, <<>>)
    ELSE SplitLinesFrom(s, i + 1, Append(cur, s[i]))
splitlines(s) == SplitLinesFrom(s, 1, <<>>)

\* str.split(): the maximal runs of non-blank characters
RECURSIVE SplitFrom(_, _)
SplitFrom(s, i) ==
    IF i > Len(s) THEN <<>>
    ELSE IF IsSpace(s[i]) THEN SplitFrom(s, i + 1)
    ELSE <<SubSeq(s, i, RunEnd(s, i))>> \o SplitFrom(s, RunEnd(s, i) + 1)
split(s) == SplitFrom(s, 1)

\* the loop over UNIT_MAP with its break: the first key found in the line, case ignored
RECURSIVE FirstUnit(_, _)
FirstUnit(low_line, k) ==
    IF k > Len(UNIT_MAP) THEN Unknown
    ELSE IF Contains(low_line, lower(UNIT_MAP[k])) THEN UNIT_MAP[k]
    ELSE FirstUnit(low_line, k + 1)
line_unit(line_clean) == FirstUnit(lower(line_clean), 1)

\* the loop over parts: one mention for every part float() accepts
RECURSIVE PartMentions(_, _, _)
PartMentions(parts, test, line_clean) ==
    IF parts = <<>> THEN <<>>
    ELSE LET r == ParseFloat(Head(parts))
             rest == PartMentions(Tail(parts), test, line_clean)
         IN  IF r.ok
             THEN <<[test_name |-> title(test), value |-> r.val,
                     unit |-> line_unit(line_clean)]>> \o rest
             ELSE rest

\* the loop over CBC_TESTS: the first token found in the line decides, then break;
\* 0 when the line holds no token
RECURSIVE FirstTest(_, _)
FirstTest(up_line, k) ==
    IF k > Len(CBC_TESTS) THEN 0
    ELSE IF Contains(up_line, CBC_TESTS[k]) THEN k
    ELSE FirstTest(up_line, k + 1)
line_test(line_clean) == FirstTest(upper(line_clean), 1)

line_mentions(line) ==
    LET line_clean == strip(line)
        k == line_test(line_clean)
    IN  IF k = 0 THEN <<>>
        ELSE PartMentions(split(line_clean), CBC_TESTS[k], line_clean)

RECURSIVE LinesMentions(_)
LinesMentions(lines) ==
    IF lines = <<>> THEN <<>>
    ELSE line_mentions(Head(lines)) \o LinesMentions(Tail(lines))

extract_labs(s) == LinesMentions(splitlines(s))

(***************************************************************************)
(* enrich_labs of the script: alias resolution, then range classification. *)
(***************************************************************************)
NotAvailable == <<"N","o","t"," ","a","v","a","i","l","a","b","l","e">>

\* reference_ranges: key -> (low, high); ints and floats as the source writes them
reference_ranges == [
    glucose     |-> [range |-> <<PyInt(70), PyInt(99)>>],
    wbc         |-> [range |-> <<PyFloat(40, 1), PyFloat(110, 1)>>],
    hemoglobin  |-> [range |-> <<PyFloat(130, 1), PyFloat(170, 1)>>],
    platelet    |-> [range |-> <<PyInt(150), PyInt(450)>>],
    cholesterol |-> [range |-> <<PyInt(0), PyInt(200)>>] ]

\* aliases, in the order the dict declares its keys
aliases == <<
    [key |-> "glucose", alias_list |-> <<
        <<"g","l","u","c","o","s","e">>,
        <<"b","l","o","o","d"," ","g","l","u","c","o","s","e">>,
        <<"f","a","s","t","i","n","g"," ","g","l","u","c","o","s","e">>,
        <<"r","a","n","d","o","m"," ","g","l","u","c","o","s","e">> >>],
    [key |-> "wbc", alias_list |-> <<
        <<"w","b","c">>,
        <<"w","h","i","t","e"," ","b","l","o","o","d"," ","c","e","l","l">>,
        <<"w","h","i","t","e"," ","b","l","o","o","d"," ","c","e","l","l","s">> >>],
    [key |-> "hemoglobin", alias_list |-> <<
        <<"h","e","m","o","g","l","o","b","i","n">>, <<"h","b">>, <<"h","g","b">> >>],
    [key |-> "platelet", alias_list |-> <<
        <<"p","l","a","t","e","l","e","t">>, <<"p","l","a","t","e","l","e","t","s">>,
        <<"p","l","t">> >>],
    [key |-> "cholesterol", alias_list |-> <<
        <<"c","h","o","l","e","s","t","e","r","o","l">>,
        <<"t","o","t","a","l"," ","c","h","o","l","e","s","t","e","r","o","l">> >>] >>

\* any(a in name_raw for a in alias_list)
AnyAlias(name_raw, alias_list) ==
    \E k \in DOMAIN alias_list : Contains(name_raw, alias_list[k])

\* the index of the first key of aliases, from k on, with an alias in the name; 0 for none
RECURSIVE FirstAlias(_, _)
FirstAlias(name_raw, k) ==
    IF k > Len(aliases) THEN 0
    ELSE IF AnyAlias(name_raw, aliases[k].alias_list) THEN k
    ELSE FirstAlias(name_raw, k + 1)

\* the same from k down: the last key with an alias in the name
RECURSIVE LastAlias(_, _)
LastAlias(name_raw, k) ==
    IF k = 0 THEN 0
    ELSE IF AnyAlias(name_raw, aliases[k].alias_list) THEN k
    ELSE LastAlias(name_raw, k - 1)

\* a slip in the loop over aliases: no break, so the last matching key wins
resolve_alias_last(name_raw) ==
    LET k == LastAlias(name_raw, Len(aliases))
    IN  IF k = 0 THEN [canonical |-> "None", confidence |-> PyFloat(6, 1)]
        ELSE [canonical |-> aliases[k].key, confidence |-> PyFloat(95, 2)]

\* canonical = None; confidence = 0.6; then the loop over aliases with its break
resolve_alias(name_raw) ==
    LET k == FirstAlias(name_raw, 1)
    IN  IF k = 0 THEN [canonical |-> "None", confidence |-> PyFloat(6, 1)]
        ELSE [canonical |-> aliases[k].key, confidence |-> PyFloat(95, 2)]

\* a slip in the comparisons: a value on a bound is out of range
classify_strict(value, low, high) ==
    IF ~NumGt(value, low) THEN [status |-> "Low", highlight |-> "warning"]
    ELSE IF ~NumLt(value, high) THEN [status |-> "High", highlight |-> "warning"]
    ELSE [status |-> "Normal", highlight |-> "normal"]

\* if value < low ... elif value > high ... else ...
classify(value, low, high) ==
    IF NumLt(value, low) THEN [status |-> "Low", highlight |-> "warning"]
    ELSE IF NumGt(value, high) THEN [status |-> "High", highlight |-> "warning"]
    ELSE [status |-> "Normal", highlight |-> "normal"]

\* f"{low}-{high}" with the en dash of the source
format_range(low, high) == NumStr(low) \o <<EnDash>> \o NumStr(high)

\* round(confidence, 2): the confidences have at most two decimals and stay as they are
round2(x) == IF x.e <= 2 THEN x
             ELSE PyFloat((x.m + 5 * Pow10(x.e - 3)) \div Pow10(x.e - 2), 2)

\* the else branch: no canonical key, or none with a reference range
unresolved_fields(confidence) ==
    [status |-> "Unknown", highlight |-> "unknown",
     normal_range |-> NotAvailable, confidence |-> PyFloat(4, 1)]

\* a slip in the if branch: the range of a classified result is not rendered
resolved_fields_norange(canonical, value, confidence) ==
    LET low == reference_ranges[canonical].range[1]
        high == reference_ranges[canonical].range[2]
        c == classify(value, low, high)
    IN  [status |-> c.status, highlight |-> c.highlight,
         normal_range |-> IF c.status = "Normal" THEN NotAvailable ELSE format_range(low, high),
         confidence |-> confidence]

\* the if branch: classification against the range of the canonical key
resolved_fields(canonical, value, confidence) ==
    LET low == reference_ranges[canonical].range[1]
        high == reference_ranges[canonical].range[2]
        c == classify(value, low, high)
    IN  [status |-> c.status, highlight |-> c.highlight,
         normal_range |-> format_range(low, high), confidence |-> confidence]

\* the body of the loop over labs
enrich_lab(lab) ==
    LET r == resolve_alias(lower(lab.test_name))
        f == IF r.canonical # "None" /\ r.canonical \in DOMAIN reference_ranges
             THEN resolved_fields(r.canonical, lab.value, r.confidence)
             ELSE unresolved_fields(r.confidence)
    IN  [test_name |-> lab.test_name, value |-> lab.value, unit |-> lab.unit,
         normal_range |-> f.normal_range, status |-> f.status,
         highlight |-> f.highlight, confidence |-> round2(f.confidence)]

enrich_labs(ls) == [i \in DOMAIN ls |-> enrich_lab(ls[i])]

\* a slip in the second pass: a Low result is tagged normal
highlight_of_lowslip(status) ==
    IF status = "Normal" THEN "normal"
    ELSE IF status = "Low" THEN "normal"
    ELSE IF status = "High" THEN "warning"
    ELSE "unknown"

\* the if / elif chain of add_highlight_level
highlight_of(status) ==
    IF status = "Normal" THEN "normal"
    ELSE IF status = "Low" THEN "warning"
    ELSE IF status = "High" THEN "warning"
    ELSE "unknown"

add_highlight_level(ls) == [i \in DOMAIN ls |-> [ls[i] EXCEPT !.highlight = highlight_of(ls[i].status)]]

(***************************************************************************)
(* format_labs_for_llm and the Lab Results text of build_summary_prompt.   *)
(***************************************************************************)
\* the characters of the status words
StatusStr == [
    Normal  |-> <<"N","o","r","m","a","l">>,
    Low     |-> <<"L","o","w">>,
    High    |-> <<"H","i","g","h">>,
    Unknown |-> Unknown ]

\* "No lab values were detected."
NoLabValues ==
    <<"N","o"," ","l","a","b"," ">> \o
    <<"v","a","l","u","e","s"," ","w","e","r","e"," ">> \o
    <<"d","e","t","e","c","t","e","d",".">>

\* "Lab values were present but could not be fully interpreted."
NotInterpreted ==
    <<"L","a","b"," ","v","a","l","u","e","s"," ","w","e","r","e"," ">> \o
    <<"p","r","e","s","e","n","t"," ","b","u","t"," ","c","o","u","l","d"," ">> \o
    <<"n","o","t"," ","b","e"," ","f","u","l","l","y"," ">> \o
    <<"i","n","t","e","r","p","r","e","t","e","d",".">>

\* f"- {test_name}: {value} {unit} (Normal: {normal_range}, Status: {status})"
lab_line(lab) ==
    <<"-"," ">> \o lab.test_name \o <<":"," ">> \o NumStr(lab.value) \o <<" ">> \o lab.unit \o
    <<" ","(","N","o","r","m","a","l",":"," ">> \o lab.normal_range \o
    <<","," ","S","t","a","t","u","s",":"," ">> \o StatusStr[lab.status] \o <<")">>

\* "\n".join(lines)
RECURSIVE JoinLines(_)
JoinLines(lines) ==
    IF lines = <<>> THEN <<>>
    ELSE IF Len(lines) = 1 THEN Head(lines)
    ELSE Head(lines) \o <<"\n">> \o JoinLines(Tail(lines))

format_labs_for_llm(ls) ==
    IF ls = <<>> THEN NoLabValues
    ELSE JoinLines([i \in DOMAIN ls |-> lab_line(ls[i])])

\* labs_text of build_summary_prompt when it returns: the first assignment, then the
\* if / else on data.get("labs") that assigns it again
build_summary_prompt(d) ==
    IF d.labs # <<>> THEN format_labs_for_llm(d.labs)
    ELSE NotInterpreted

(***************************************************************************)
(* The package module: extract_labs by one regular expression per test,    *)
(* enrich_labs against LAB_REFERENCE.                                      *)
(***************************************************************************)
Hemoglobin == <<"H","e","m","o","g","l","o","b","i","n">>
PCV == <<"P","C","V">>
RBCCount == <<"R","B","C"," ","C","o","u","n","t">>
WBCCount == <<"W","B","C"," ","C","o","u","n","t">>
PlateletCount == <<"P","l","a","t","e","l","e","t"," ","C","o","u","n","t">>
Glucose == <<"G","l","u","c","o","s","e">>

UnitGdL == <<"g","/","d","L">>
UnitX103uL == <<"x","1","0","^","3","/","u","L">>
UnitMgdL == <<"m","g","/","d","L">>

\* LAB_REFERENCE of the package module
LAB_REFERENCE == <<
    [name |-> Hemoglobin, low |-> PyFloat(120, 1), high |-> PyFloat(160, 1), unit |-> UnitGdL],
    [name |-> WBCCount, low |-> PyFloat(40, 1), high |-> PyFloat(110, 1), unit |-> UnitX103uL],
    [name |-> PlateletCount, low |-> PyInt(150), high |-> PyInt(450), unit |-> UnitX103uL],
    [name |-> Glucose, low |-> PyInt(70), high |-> PyInt(99), unit |-> UnitMgdL] >>

\* the longest gap [^\d]{0,40} may span
MaxGap == 40

\* LAB_PATTERNS in the order the dict declares them: (words)[^\d]{0,40}([\d]+\.?\d*);
\* the pattern of Platelet Count ends in ([\d]+), with no fraction
LAB_PATTERNS == <<
    [name |-> Hemoglobin, frac |-> TRUE,
     words |-> << <<"h","e","m","o","g","l","o","b","i","n">>, <<"h","b">> >>],
    [name |-> PCV, frac |-> TRUE,
     words |-> << <<"p","c","v">>,
        <<"p","a","c","k","e","d"," ","c","e","l","l"," ","v","o","l","u","m","e">> >>],
    [name |-> RBCCount, frac |-> TRUE, words |-> << <<"r","b","c">> >>],
    [name |-> WBCCount, frac |-> TRUE, words |-> << <<"w","b","c">> >>],
    [name |-> PlateletCount, frac |-> FALSE, words |-> << <<"p","l","a","t","e","l","e","t">> >>],
    [name |-> Glucose, frac |-> TRUE, words |-> << <<"g","l","u","c","o","s","e">> >>] >>

\* the word w of a pattern matches at i, case ignored (re.IGNORECASE)
WordAt(s, i, w) ==
    /\ i + Len(w) - 1 <= Len(s)
    /\ \A k \in 1..Len(w) : LowerChar(s[i + k - 1]) = w[k]

\* the number of characters [^\d]{0,40} takes from index j, greedily
RECURSIVE GapLen(_, _, _)
GapLen(s, j, n) ==
    IF n < MaxGap /\ j + n <= Len(s) /\ ~IsDigit(s[j + n]) THEN GapLen(s, j, n + 1) ELSE n

\* the last index of the run of digits that starts at j
RECURSIVE DigitsEnd(_, _)
DigitsEnd(s, j) == IF j < Len(s) /\ IsDigit(s[j + 1]) THEN DigitsEnd(s, j + 1) ELSE j

\* the last index of group 2, [\d]+\.?\d* (or [\d]+), that starts at j
NumberEnd(s, j, frac) ==
    LET d == DigitsEnd(s, j)
    IN  IF frac /\ d < Len(s) /\ s[d + 1] = "."
        THEN (IF d + 1 < Len(s) /\ IsDigit(s[d + 2]) THEN DigitsEnd(s, d + 2) ELSE d + 1)
        ELSE d

\* the pattern matches with word w at i: the gap is a run of non-digits, so only its
\* full length can be followed by a digit, and no shorter gap that backtracking tries
WordMatchAt(s, i, w) ==
    /\ WordAt(s, i, w)
    /\ LET j == i + Len(w) + GapLen(s, i + Len(w), 0)
       IN  j <= Len(s) /\ IsDigit(s[j])

\* the first alternative of group 1, from k on, with which the pattern matches at i;
\* 0 when none does
RECURSIVE FirstWord(_, _, _, _)
FirstWord(s, i, pat, k) ==
    IF k > Len(pat.words) THEN 0
    ELSE IF WordMatchAt(s, i, pat.words[k]) THEN k
    ELSE FirstWord(s, i, pat, k + 1)

PatternAt(s, i, pat) == FirstWord(s, i, pat, 1) # 0

\* group 2 of the match at i
Group2At(s, i, pat) ==
    LET w == pat.words[FirstWord(s, i, pat, 1)]
        j == i + Len(w) + GapLen(s, i + Len(w), 0)
    IN  SubSeq(s, j, NumberEnd(s, j, pat.frac))

\* re.search: the leftmost index where the pattern matches, 0 for no match
search(pat, s) ==
    LET is == {i \in 1..Len(s) : PatternAt(s, i, pat)}
    IN  IF is = {} THEN 0 ELSE CHOOSE i \in is : \A j \in is : i <= j

\* the loop over LAB_PATTERNS.items()
RECURSIVE PatternMentions(_, _)
PatternMentions(pats, s) ==
    IF pats = <<>> THEN <<>>
    ELSE LET pat == Head(pats)
             i == search(pat, s)
             rest == PatternMentions(Tail(pats), s)
         IN  IF i = 0 THEN rest
             ELSE <<[test_name |-> pat.name,
                     value |-> ParseFloat(Group2At(s, i, pat)).val]>> \o rest

pkg_extract_labs(s) == PatternMentions(LAB_PATTERNS, s)

InReference(name) == \E k \in DOMAIN LAB_REFERENCE : LAB_REFERENCE[k].name = name
RefOf(name) == LAB_REFERENCE[CHOOSE k \in DOMAIN LAB_REFERENCE : LAB_REFERENCE[k].name = name]

\* if value < ref["low"] ... elif value > ref["high"] ... else ...
pkg_classify(value, ref) ==
    IF NumLt(value, ref.low) THEN [status |-> "Low", highlight |-> "warning"]
    ELSE IF NumGt(value, ref.high) THEN [status |-> "High", highlight |-> "warning"]
    ELSE [status |-> "Normal", highlight |-> "normal"]

\* the loop over extracted_labs: a name with no reference entry is skipped (continue)
RECURSIVE pkg_enrich_labs(_)
pkg_enrich_labs(ls) ==
    IF ls = <<>> THEN <<>>
    ELSE LET lab == Head(ls)
             rest == pkg_enrich_labs(Tail(ls))
         IN  IF ~InReference(lab.test_name) THEN rest
             ELSE LET ref == RefOf(lab.test_name)
                      c == pkg_classify(lab.value, ref)
                  IN  <<[test_name |-> lab.test_name, value |-> lab.value,
                         unit |-> ref.unit,
                         normal_range |-> format_range(ref.low, ref.high),
                         status |-> c.status, highlight |-> c.highlight]>> \o rest

pkg_add_highlight_level(ls) ==
    [i \in DOMAIN ls |-> [ls[i] EXCEPT !.highlight = highlight_of(ls[i].status)]]

(***************************************************************************)
(* application.py: analyze_file of the package module and the calls of a   *)
(* run of the script.  Streamlit runs the script from top to bottom after  *)
(* every interaction; st.session_state and the state of the keyed widgets  *)
(* last from one run to the next.                                          *)
(***************************************************************************)
\* re.sub(r"[^a-zA-Z0-9.,:/()\n ]", " ", text)
pkg_KeptChar(c) == IsLetter(c) \/ IsDigit(c) \/ c \in {".", ",", ":", "/", "(", ")", "\n", " "}
pkg_sub_chars(s) == [i \in DOMAIN s |-> IF pkg_KeptChar(s[i]) THEN s[i] ELSE " "]

\* re.sub(r"\s+", " ", text)
RECURSIVE SubSpacesFrom(_, _)
SubSpacesFrom(s, i) ==
    IF i > Len(s) THEN <<>>
    ELSE IF IsSpace(s[i])
         THEN IF i > 1 /\ IsSpace(s[i - 1]) THEN SubSpacesFrom(s, i + 1)
              ELSE <<" ">> \o SubSpacesFrom(s, i + 1)
    ELSE <<s[i]>> \o SubSpacesFrom(s, i + 1)
pkg_sub_spaces(s) == SubSpacesFrom(s, 1)

pkg_clean_text(s) ==
    strip(repair_units(pkg_sub_spaces(pkg_sub_chars(
        sub_email(sub_http(ascii_ignore(s)))))))

\* the record convert_to_json returns, its labs and raw_text.  (The file texts of the
\* model hold no patient or vital-sign label; file_name and language are not used.)
pkg_convert_to_json(t) ==
    [labs |-> pkg_add_highlight_level(pkg_enrich_labs(pkg_extract_labs(t))),
     raw_text |-> t]

\* the narrative the generation service returns for the prompt built from a record:
\* the answer itself is not modelled, it is named by the record it was asked about
generate_summary(d) == [prompt_of |-> d]

\* analyze_file(file_path), given the text extract_text reads from the file
analyze_file(raw_text) ==
    LET d == pkg_convert_to_json(pkg_clean_text(raw_text))
    IN  [data |-> d, summary |-> generate_summary(d)]

\* the text of the files the user has at hand
FileTexts == <<
    Hemoglobin \o <<":"," ","1","1",".","2","\n">>,
    Glucose \o <<" ","1","0","5"," ","#","\n">>,
    <<"n","o"," ","l","a","b","s">> >>

Files == DOMAIN FileTexts

\* analyze_file of every file
Analyses == [f \in Files |-> analyze_file(FileTexts[f])]

\* a dict with no key
EmptyDict == [k \in {} |-> k]

\* a str where the field of a record may also hold a float
PyStr(s) == [kind |-> "str", s |-> s]

\* the fields of a lab row, in the order of their text_input calls
WidgetFields == <<"test_name", "value", "unit", "normal_range">>

\* the widget of a field of lab row i: the keys t{i}, v{i}, u{i}, n{i}
WidgetKey(fd, i) == [field |-> fd, i |-> i]

\* the button Re-generate Summary from Edited Data among the widgets of the page
Button == [field |-> "button", i |-> 0]

\* the widget the run reads after it has read c of them
NextWidget(c) == WidgetKey(WidgetFields[(c % Len(WidgetFields)) + 1], (c \div Len(WidgetFields)) + 1)

\* str(value) for the value a text_input call is given: the field as it stands,
\* a float in the value field until the first widget has been read into it
str_of(lab, fd) ==
    IF fd # "value" THEN lab[fd]
    ELSE IF lab.value.kind = "str" THEN lab.value.s
    ELSE NumStr(lab.value)

\* st.text_input(label, value, key=key): the state of the widget when it has one,
\* str(value) when it is new
text_input(state, key, value) == IF key \in DOMAIN state THEN state[key] ELSE value

\* lab[field] = cols[..].text_input(..) for the widget key: the record after it
read_widget(editable, state, key) ==
    LET v == text_input(state, key, str_of(editable.labs[key.i], key.field))
    IN  [editable EXCEPT !.labs[key.i][key.field] = IF key.field = "value" THEN PyStr(v) ELSE v]

\* the widget state after the same call: a new widget is registered with its value
registered(editable, state, key) ==
    [k \in DOMAIN state \cup {key} |->
        IF k \in DOMAIN state THEN state[k]
        ELSE str_of(editable.labs[key.i], key.field)]

(***************************************************************************)
(* Raw texts handed to clean_text: up to MaxPieces pieces, concatenated.   *)
(***************************************************************************)
RawPieces == {
    <<"a">>, <<" ">>, <<"\n">>, <<"\t">>, <<"\f">>, <<"_">>, <<"#">>, <<"^">>, <<Micro>>, <<"@">>,
    <<"h","t","t","p">>, <<"x","1","0">>, <<"3","/","L">>,
    Artifact1, Artifact2, Repaired }

RawTexts == {Concat(ps) : ps \in SeqUpTo(RawPieces, MaxPieces)}

Idle ==
    /\ cleaned = <<>> /\ recleaned = <<>>
    /\ enriched = <<>> /\ labs = <<>>
    /\ pkg_extracted = <<>> /\ pkg_labs = <<>>
    /\ labs_text = <<>>
    /\ uploaded_file = 0 /\ session_state = EmptyDict /\ data = EmptyDict
    /\ widgets = EmptyDict /\ page = {} /\ clicked = FALSE /\ cursor = 0

InitClean ==
    /\ pc = "start"
    /\ text \in RawTexts
    /\ extracted = <<>>
    /\ Idle

\* cleaned_text = clean_text(raw_text)
CleanText ==
    /\ pc = "start"
    /\ cleaned' = clean_text(text)
    /\ pc' = "cleaned"
    /\ UNCHANGED <<text, recleaned, extracted, enriched, labs, pkg_extracted, pkg_labs, labs_text,
                 uploaded_file, session_state, data, widgets, page,
                 clicked, cursor>>

\* clean_text applied to its own result
CleanAgain ==
    /\ pc = "cleaned"
    /\ recleaned' = clean_text(cleaned)
    /\ pc' = "recleaned"
    /\ UNCHANGED <<text, cleaned, extracted, enriched, labs, pkg_extracted, pkg_labs, labs_text,
                 uploaded_file, session_state, data, widgets, page,
                 clicked, cursor>>

NextClean == CleanText \/ CleanAgain

SpecClean == InitClean /\ [][NextClean]_vars

(***************************************************************************)
(* Texts handed to convert_to_json: up to MaxWords words joined by blanks. *)
(***************************************************************************)
Words == {
    Hemoglobin, Glucose, PCV, <<"W","B","C">>,
    <<"1","1",".","2">>, <<"1","4",".","5">>, <<"1","0","5">>,
    UnitGdL, <<"\n">> }

Texts == {JoinSpace(ws) : ws \in SeqUpTo(Words, MaxWords)}

Init ==
    /\ pc = "start"
    /\ text \in Texts
    /\ extracted = <<>>
    /\ Idle

\* convert_to_json of the script: extract_labs, enrich_labs, add_highlight_level
ConvertToJson ==
    /\ pc = "start"
    /\ LET extracted_labs == extract_labs(text)
           enriched_labs == enrich_labs(extracted_labs)
       IN  /\ extracted' = extracted_labs
           /\ enriched' = enriched_labs
           /\ labs' = add_highlight_level(enriched_labs)
    /\ pc' = "converted"
    /\ UNCHANGED <<text, cleaned, recleaned, pkg_extracted, pkg_labs, labs_text,
                 uploaded_file, session_state, data, widgets, page,
                 clicked, cursor>>

\* convert_to_json of the package module
PkgConvertToJson ==
    /\ pc = "start"
    /\ LET extracted_labs == pkg_extract_labs(text)
       IN  /\ pkg_extracted' = extracted_labs
           /\ pkg_labs' = pkg_add_highlight_level(pkg_enrich_labs(extracted_labs))
    /\ pc' = "pkg_converted"
    /\ UNCHANGED <<text, cleaned, recleaned, extracted, enriched, labs, labs_text,
                 uploaded_file, session_state, data, widgets, page,
                 clicked, cursor>>

\* generate_summary(data) of the script, up to the prompt it sends
BuildSummaryPrompt ==
    /\ pc = "converted"
    /\ labs_text' = build_summary_prompt([labs |-> labs])
    /\ pc' = "prompted"
    /\ UNCHANGED <<text, cleaned, recleaned, extracted, enriched, labs, pkg_extracted, pkg_labs,
                 uploaded_file, session_state, data, widgets, page,
                 clicked, cursor>>

Next == ConvertToJson \/ PkgConvertToJson \/ BuildSummaryPrompt

Spec == Init /\ [][Next]_vars

(***************************************************************************)
(* Mention lists handed to enrich_labs directly: up to MaxMentions         *)
(* mentions, their values on and around the bounds of every reference.     *)
(***************************************************************************)
WbcGlucose == <<"W","b","c"," ","G","l","u","c","o","s","e">>
Cholesterol == <<"C","h","o","l","e","s","t","e","r","o","l">>
Pcv == <<"P","c","v">>

MentionNames == {Hemoglobin, Glucose, WbcGlucose, PlateletCount, WBCCount, Cholesterol, Pcv}

MentionValues == {
    PyFloat(-1, 0), PyFloat(0, 0), PyFloat(39, 1), PyFloat(4, 0), PyFloat(11, 0),
    PyFloat(12, 0), PyFloat(13, 0), PyFloat(16, 0), PyFloat(17, 0), PyFloat(70, 0),
    PyFloat(99, 0), PyFloat(150, 0), PyFloat(200, 0), PyFloat(201, 0), PyFloat(450, 0),
    PyFloat(451, 0), NaN }

Mentions == {[test_name |-> n, value |-> v, unit |-> Unknown] :
                n \in MentionNames, v \in MentionValues}

InitEnrich ==
    /\ pc = "start"
    /\ text = <<>>
    /\ extracted \in SeqUpTo(Mentions, MaxMentions)
    /\ Idle

\* enrich_labs(labs) of the script
EnrichLabs ==
    /\ pc = "start"
    /\ enriched' = enrich_labs(extracted)
    /\ pc' = "enriched"
    /\ UNCHANGED <<text, cleaned, recleaned, extracted, labs, pkg_extracted, pkg_labs, labs_text,
                 uploaded_file, session_state, data, widgets, page,
                 clicked, cursor>>

\* enrich_labs(extracted_labs) of the package module
PkgEnrichLabs ==
    /\ pc = "start"
    /\ pkg_labs' = pkg_enrich_labs(extracted)
    /\ pc' = "pkg_enriched"
    /\ UNCHANGED <<text, cleaned, recleaned, extracted, enriched, labs, pkg_extracted, labs_text,
                 uploaded_file, session_state, data, widgets, page,
                 clicked, cursor>>

NextEnrich == EnrichLabs \/ PkgEnrichLabs

SpecEnrich == InitEnrich /\ [][NextEnrich]_vars

(***************************************************************************)
(* One-line texts handed to extract_labs: a token of CBC_TESTS in upper,   *)
(* title or lower case, a blank, a number, and possibly a unit.            *)
(***************************************************************************)
TokenForms == UNION {{CBC_TESTS[k], title(CBC_TESTS[k]), lower(CBC_TESTS[k])} :
                        k \in DOMAIN CBC_TESTS}

LineNumbers == {<<"3","3",".","5">>, <<"1","2">>, <<"4",".","5">>}

LineUnits == {<<>>, UnitGdL, <<"f","L">>, <<"%">>}

VocabLines == {JoinSpace(<<t, n>> \o (IF u = <<>> THEN <<>> ELSE <<u>>)) :
                  t \in TokenForms, n \in LineNumbers, u \in LineUnits}

InitVocab ==
    /\ pc = "start"
    /\ text \in VocabLines
    /\ extracted = <<>>
    /\ Idle

\* extract_labs(text) of the script
ExtractLabs ==
    /\ pc = "start"
    /\ extracted' = extract_labs(text)
    /\ pc' = "extracted"
    /\ UNCHANGED <<text, cleaned, recleaned, enriched, labs, pkg_extracted, pkg_labs, labs_text,
                 uploaded_file, session_state, data, widgets, page,
                 clicked, cursor>>

NextVocab == ExtractLabs

SpecVocab == InitVocab /\ [][NextVocab]_vars

(***************************************************************************)
(* A session of application.py.  The user uploads text files, clears the   *)
(* uploader, retypes lab fields and clicks the button; every interaction   *)
(* starts a run of the script and stops the run in progress, keeping what  *)
(* that run has written to st.session_state.  A run is stopped where it    *)
(* hands an element to the page; the steps of a run are the stretches of   *)
(* the script between such calls that change the state.                    *)
(***************************************************************************)
EditValues == {<<"1","2">>}

InitApp ==
    /\ pc = "idle"
    /\ text = <<>>
    /\ extracted = <<>>
    /\ Idle

\* where an interaction finds the script: between two runs (the last one ended, or
\* ended with an exception), or inside a run at a call that looks for a request.  A
\* text_input call looks for one twice: before it registers the widget and before it
\* hands the element to the page.
InSession == pc \in {"idle", "error", "run", "analysed", "copied", "widgets", "registered"}

\* a run starts from the top: no local is bound, no lab widget read
StartRun(click) ==
    /\ pc' = "run"
    /\ data' = EmptyDict
    /\ cursor' = 0
    /\ clicked' = click

\* the user puts a file into the uploader
Upload ==
    /\ InSession
    /\ \E f \in Files \ {uploaded_file} : uploaded_file' = f
    /\ StartRun(FALSE)
    /\ UNCHANGED <<text, cleaned, recleaned, extracted, enriched, labs, pkg_extracted,
                   pkg_labs, labs_text, session_state, widgets, page>>

\* the user clears the uploader
Remove ==
    /\ InSession
    /\ uploaded_file # 0
    /\ uploaded_file' = 0
    /\ StartRun(FALSE)
    /\ UNCHANGED <<text, cleaned, recleaned, extracted, enriched, labs, pkg_extracted,
                   pkg_labs, labs_text, session_state, widgets, page>>

\* the user retypes a lab field the page shows
EditLab ==
    /\ InSession
    /\ \E key \in page \ {Button}, v \in EditValues :
          /\ widgets[key] # v
          /\ widgets' = [widgets EXCEPT ![key] = v]
    /\ StartRun(FALSE)
    /\ UNCHANGED <<text, cleaned, recleaned, extracted, enriched, labs, pkg_extracted,
                   pkg_labs, labs_text, uploaded_file, session_state, page>>

\* the user clicks Re-generate Summary from Edited Data
Regenerate ==
    /\ InSession
    /\ Button \in page
    /\ StartRun(TRUE)
    /\ UNCHANGED <<text, cleaned, recleaned, extracted, enriched, labs, pkg_extracted,
                   pkg_labs, labs_text, uploaded_file, session_state, widgets, page>>

\* if uploaded_file: with no file the run ends at once; Streamlit drops the state of
\* the widgets a finished run has not shown, and the page loses them
Skip ==
    /\ pc = "run"
    /\ uploaded_file = 0
    /\ pc' = "idle"
    /\ widgets' = EmptyDict
    /\ page' = {}
    /\ clicked' = FALSE
    /\ UNCHANGED <<text, cleaned, recleaned, extracted, enriched, labs, pkg_extracted,
                   pkg_labs, labs_text, uploaded_file, session_state, data, cursor>>

\* data, summary = analyze_file(tmp_path)
Analyze ==
    /\ pc = "run"
    /\ uploaded_file # 0
    /\ data' = Analyses[uploaded_file].data
    /\ pc' = "analysed"
    /\ UNCHANGED <<text, cleaned, recleaned, extracted, enriched, labs, pkg_extracted,
                   pkg_labs, labs_text, uploaded_file, session_state, widgets, page,
                   clicked, cursor>>

\* analyze_file raises (the file cannot be read, the service does not answer): the
\* run ends there and the page shows the error only
AnalyzeFails ==
    /\ pc = "run"
    /\ uploaded_file # 0
    /\ pc' = "error"
    /\ page' = {}
    /\ clicked' = FALSE
    /\ UNCHANGED <<text, cleaned, recleaned, extracted, enriched, labs, pkg_extracted,
                   pkg_labs, labs_text, uploaded_file, session_state, data, widgets, cursor>>

\* lines 145-146: editable_data is written only when the key is absent; copy.deepcopy
\* gives the session a record of its own.  The run can be stopped before line 147.
InitSession ==
    /\ pc = "analysed"
    /\ IF "editable_data" \notin DOMAIN session_state
       THEN /\ session_state' = ("editable_data" :> data) @@ session_state
            /\ pc' = "copied"
       ELSE /\ session_state' = session_state
            /\ pc' = "widgets"
    /\ UNCHANGED <<text, cleaned, recleaned, extracted, enriched, labs, pkg_extracted,
                   pkg_labs, labs_text, uploaded_file, data, widgets, page, clicked, cursor>>

\* line 147: st.session_state.summary = summary
WriteSummary ==
    /\ pc = "copied"
    /\ session_state' = ("summary" :> Analyses[uploaded_file].summary) @@ session_state
    /\ pc' = "widgets"
    /\ UNCHANGED <<text, cleaned, recleaned, extracted, enriched, labs, pkg_extracted,
                   pkg_labs, labs_text, uploaded_file, data, widgets, page, clicked, cursor>>

\* the widgets of the Laboratory Results loop
LabWidgets == {WidgetKey(fd, i) : fd \in Range(WidgetFields),
                                  i \in DOMAIN session_state.editable_data.labs}

\* a text_input call of the Laboratory Results loop (lines 175-178), its first half:
\* a widget with no state gets str(value) as its state.  The run can be stopped
\* before the widget is registered and before the element is handed to the page.
RegisterWidget ==
    /\ pc = "widgets"
    /\ cursor < Cardinality(LabWidgets)
    /\ widgets' = registered(session_state.editable_data, widgets, NextWidget(cursor))
    /\ pc' = "registered"
    /\ UNCHANGED <<text, cleaned, recleaned, extracted, enriched, labs, pkg_extracted,
                   pkg_labs, labs_text, uploaded_file, session_state, data, page, clicked,
                   cursor>>

\* the second half of the call: the element is on the page, the call returns the
\* state of the widget and the field of the record is assigned
ReadWidget ==
    /\ pc = "registered"
    /\ LET key == NextWidget(cursor)
           editable == session_state.editable_data
       IN  /\ session_state' = [session_state EXCEPT
                                   !.editable_data = read_widget(editable, widgets, key)]
           /\ page' = page \cup {key}
    /\ cursor' = cursor + 1
    /\ pc' = "widgets"
    /\ UNCHANGED <<text, cleaned, recleaned, extracted, enriched, labs, pkg_extracted,
                   pkg_labs, labs_text, uploaded_file, data, widgets, clicked>>

\* lines 192-200, after the last widget: the button, the summary generated from the
\* edited record when a click started the run, the summary shown, the end of the run
Finish ==
    /\ pc = "widgets"
    /\ cursor = Cardinality(LabWidgets)
    /\ clicked \/ "summary" \in DOMAIN session_state
    /\ session_state' =
          IF clicked
          THEN ("summary" :> generate_summary(session_state.editable_data)) @@ session_state
          ELSE session_state
    /\ page' = LabWidgets \cup {Button}
    /\ pc' = "idle"
    /\ clicked' = FALSE
    /\ UNCHANGED <<text, cleaned, recleaned, extracted, enriched, labs, pkg_extracted,
                   pkg_labs, labs_text, uploaded_file, data, widgets, cursor>>

\* line 197 with no summary in st.session_state (an earlier run was stopped before
\* line 147): AttributeError, the run ends with the widgets and the button shown
SummaryMissing ==
    /\ pc = "widgets"
    /\ cursor = Cardinality(LabWidgets)
    /\ ~clicked
    /\ "summary" \notin DOMAIN session_state
    /\ page' = LabWidgets \cup {Button}
    /\ pc' = "error"
    /\ UNCHANGED <<text, cleaned, recleaned, extracted, enriched, labs, pkg_extracted,
                   pkg_labs, labs_text, uploaded_file, session_state, data, widgets, clicked,
                   cursor>>

\* generate_summary raises in the run a click started: the run ends with the button
\* shown and the summary as it was
GenerateFails ==
    /\ pc = "widgets"
    /\ cursor = Cardinality(LabWidgets)
    /\ clicked
    /\ page' = LabWidgets \cup {Button}
    /\ pc' = "error"
    /\ clicked' = FALSE
    /\ UNCHANGED <<text, cleaned, recleaned, extracted, enriched, labs, pkg_extracted,
                   pkg_labs, labs_text, uploaded_file, session_state, data, widgets, cursor>>

NextApp ==
    \/ Upload \/ Remove \/ EditLab \/ Regenerate
    \/ Skip \/ Analyze \/ AnalyzeFails \/ InitSession \/ WriteSummary
    \/ RegisterWidget \/ ReadWidget \/ Finish \/ SummaryMissing \/ GenerateFails

SpecApp == InitApp /\ [][NextApp]_vars

(***************************************************************************)
(* The claims.                                                             *)
(***************************************************************************)
Converted == pc = "converted"
PkgConverted == pc = "pkg_converted"

\* the lines of the text that hold a token of CBC_TESTS
TokenLines == {k \in DOMAIN splitlines(text) : line_test(strip(splitlines(text)[k])) # 0}

\* C1: extract_labs of the script emits at most one mention per line that holds a
\* recognized token, so there are never more mentions than such lines.
C1_OneMentionPerLine == Converted => Len(extracted) <= Cardinality(TokenLines)

\* C2: every mention the package module extracts yields one entry of labs; a mention
\* with no reference entry is kept with status Unknown, never dropped.
C2_NoMentionDropped == PkgConverted => Len(pkg_labs) = Len(pkg_extracted)

ScenarioD == JoinSpace(<<Glucose, <<"1","0","5">> >>)

\* C3: Scenario D: the script turns the text "Glucose 105" into a glucose result with
\* value 105, unit "Unknown" and a status computed against the glucose interval.
C3_ScenarioD ==
    (Converted /\ text = ScenarioD) =>
        \E i \in DOMAIN labs :
            /\ lower(labs[i].test_name) = lower(Glucose)
            /\ labs[i].value = PyFloat(105, 0)
            /\ labs[i].unit = Unknown
            /\ labs[i].status \in {"Low", "Normal", "High"}

\* where the mention of a test of the package module first appears in the text
PatternOf(name) == LAB_PATTERNS[CHOOSE k \in DOMAIN LAB_PATTERNS : LAB_PATTERNS[k].name = name]
MentionStart(name) == search(PatternOf(name), text)

\* C4: the labs of the package module are in the order in which their mentions first
\* appear in the text.
C4_TextOrder ==
    PkgConverted =>
        \A i, j \in DOMAIN pkg_labs :
            i < j => MentionStart(pkg_labs[i].test_name) < MentionStart(pkg_labs[j].test_name)

HighlightFor(status) ==
    CASE status \in {"Low", "High"} -> "warning"
      [] status = "Normal" -> "normal"
      [] OTHER -> "unknown"

\* C5: every result of the script's convert_to_json has one of the four statuses, its
\* highlight is decided by the status alone (Low/High warning, Normal normal, Unknown
\* unknown), and add_highlight_level leaves the highlight enrich_labs assigned.
C5_HighlightOfStatus ==
    Converted =>
        /\ Len(labs) = Len(enriched)
        /\ \A i \in DOMAIN labs :
            /\ labs[i].status \in {"Low", "Normal", "High", "Unknown"}
            /\ labs[i].highlight = HighlightFor(labs[i].status)
            /\ labs[i].highlight = enriched[i].highlight
            /\ labs[i].status = enriched[i].status

\* a Low and a Normal result have passed through both passes
C5_Witness ==
    /\ Converted
    /\ \E i, j \in DOMAIN labs : labs[i].status = "Low" /\ labs[j].status = "Normal"

\* the first key, in declaration order, one of whose aliases the name contains
MatchedKeys(name_raw) ==
    {k \in DOMAIN aliases :
        \E a \in DOMAIN aliases[k].alias_list : Contains(name_raw, aliases[k].alias_list[a])}
FirstKey(name_raw) == aliases[CHOOSE k \in MatchedKeys(name_raw) :
                                 \A j \in MatchedKeys(name_raw) : k <= j].key

\* "{low}-{high}" of every reference entry of the script, as Python prints it
RangeText == [
    glucose     |-> <<"7","0",EnDash,"9","9">>,
    wbc         |-> <<"4",".","0",EnDash,"1","1",".","0">>,
    hemoglobin  |-> <<"1","3",".","0",EnDash,"1","7",".","0">>,
    platelet    |-> <<"1","5","0",EnDash,"4","5","0">>,
    cholesterol |-> <<"0",EnDash,"2","0","0">> ]

Enriched == pc = "enriched"
PkgEnriched == pc = "pkg_enriched"

\* C6: a result of enrich_labs has normal_range "Not available" exactly when its status
\* is Unknown; a Low, Normal or High result carries the rendered range of its entry.
C6_RangeIffKnown ==
    Enriched =>
        \A i \in DOMAIN enriched :
            LET r == enriched[i]
            IN  /\ (r.normal_range = NotAvailable) <=> (r.status = "Unknown")
                /\ r.status \in {"Low", "Normal", "High"} =>
                       r.normal_range = RangeText[FirstKey(lower(r.test_name))]

\* a value inside its interval has been classified and carries the rendered range
C6_Witness ==
    /\ Enriched
    /\ \E i \in DOMAIN enriched :
           enriched[i].status = "Normal" /\ enriched[i].normal_range = RangeText.wbc

ThreeWay(status, value, low, high) ==
    /\ status = "Low" <=> NumLt(value, low)
    /\ status = "High" <=> NumGt(value, high)
    /\ status = "Normal" <=> (~NumLt(value, low) /\ ~NumGt(value, high))

\* C7: a mention resolved to a reference entry [low, high] is Low iff value < low, High
\* iff value > high and Normal otherwise, a value on a bound being Normal; in the script
\* and in the package module.
C7_ThreeWaySplit ==
    /\ Enriched =>
        \A i \in DOMAIN enriched :
            LET r == enriched[i]
                name_raw == lower(r.test_name)
            IN  MatchedKeys(name_raw) # {} =>
                    ThreeWay(r.status, r.value,
                             reference_ranges[FirstKey(name_raw)].range[1],
                             reference_ranges[FirstKey(name_raw)].range[2])
    /\ PkgEnriched =>
        \A i \in DOMAIN pkg_labs :
            LET r == pkg_labs[i]
            IN  ThreeWay(r.status, r.value, RefOf(r.test_name).low, RefOf(r.test_name).high)

\* a value on the lower bound of its entry has been classified Normal
C7_Witness ==
    /\ Enriched
    /\ \E i \in DOMAIN enriched :
           /\ enriched[i].test_name = Hemoglobin
           /\ enriched[i].value = PyFloat(13, 0)
           /\ enriched[i].status = "Normal"

\* C8: an alias-matched mention gets the first matching key in declaration order and
\* confidence 0.95, an unmatched one no key and confidence 0.4; no other confidence
\* is emitted, so it lies in [0, 1] and a matched one is at least an unmatched one.
C8_Confidence ==
    Enriched =>
        \A i \in DOMAIN enriched :
            LET r == enriched[i]
                name_raw == lower(extracted[i].test_name)
            IN  /\ r.confidence \in {PyFloat(95, 2), PyFloat(4, 1)}
                /\ ~NumLt(r.confidence, PyFloat(0, 0)) /\ ~NumGt(r.confidence, PyFloat(1, 0))
                /\ MatchedKeys(name_raw) # {} =>
                       /\ r.confidence = PyFloat(95, 2)
                       /\ r.normal_range = RangeText[FirstKey(name_raw)]
                /\ MatchedKeys(name_raw) = {} =>
                       /\ r.confidence = PyFloat(4, 1)
                       /\ r.status = "Unknown"

\* a name that holds aliases of two keys has been resolved to the first declared
C8_Witness ==
    /\ Enriched
    /\ \E i \in DOMAIN enriched :
           /\ enriched[i].test_name = WbcGlucose
           /\ enriched[i].normal_range = RangeText.glucose
           /\ enriched[i].confidence = PyFloat(95, 2)

Cleaned == pc \in {"cleaned", "recleaned"}
Recleaned == pc = "recleaned"

\* C9: clean_text is idempotent: cleaning a cleaned text changes nothing, also when
\* the text holds a repaired unit, a URL, an email or blank lines.
C9_Idempotent == Recleaned => recleaned = cleaned

\* the second pass has run on a text that holds a repaired unit
C9_Witness ==
    /\ Recleaned
    /\ Contains(cleaned, Repaired)
    /\ Len(cleaned) > Len(Repaired)

\* the safe textual subset of the specification
SafeChar(c) ==
    IsLetter(c) \/ IsDigit(c) \/ IsSpace(c) \/ c \in {".", ",", ":", "/", "(", ")", "%", "-"}

\* C10: every character of the text clean_text returns is a letter, a digit,
\* one of . , : / ( ) % - or whitespace.
C10_SafeSubset == Cleaned => \A i \in DOMAIN cleaned : SafeChar(cleaned[i])

Prompted == pc = "prompted"

\* C11: the Lab Results text build_summary_prompt places in the prompt is
\* format_labs_for_llm(labs) verbatim: one line per lab in order, and exactly
\* "No lab values were detected." when labs is empty.
C11_PromptVerbatim == Prompted => labs_text = format_labs_for_llm(labs)

Extracted == pc = "extracted"

\* the token a line of VocabLines starts with, in the case of CBC_TESTS
LineToken == upper(split(text)[1])

\* C12: every token of CBC_TESTS is emittable and a line is labelled with the token
\* it actually contains: for a line made of a token and a number, extract_labs
\* returns a mention, and every mention carries that token title-cased.
C12_TokenLabel ==
    Extracted => /\ extracted # <<>>
                 /\ \A i \in DOMAIN extracted : extracted[i].test_name = title(LineToken)

\* no mention of extract_labs is ever named Mchc
NeverMchc ==
    \A i \in DOMAIN extracted : extracted[i].test_name # title(<<"M","C","H","C">>)

\* a run has come to its end, summary shown, with the record of the uploaded file
\* analysed
Shown == pc = "idle" /\ uploaded_file # 0 /\ "raw_text" \in DOMAIN data

\* C13: after any sequence of uploads in one session, the record shown and edited and
\* the displayed summary come from the analysis of the file now in the uploader, and
\* the record analyze_file returned is as analyze_file returned it, edits or not.
C13_LatestUpload ==
    Shown =>
        /\ session_state.editable_data.raw_text = data.raw_text
        /\ session_state.summary.prompt_of.raw_text = data.raw_text
        /\ data = Analyses[uploaded_file].data

====
